---- MODULE Spec2Model ----
(***************************************************************************)
(* Evaluation job queue of db/dataset_eval.py: the dataset_eval_jobs and   *)
(* dataset_snapshot tables and the functions that read and write them.     *)
(*                                                                         *)
(* Spec          the job lifecycle: every function is one atomic call.     *)
(* SpecEnqueue   evaluate_dataset over every argument and document.        *)
(* SpecSnapshot  the snapshot table beside the job table.                  *)
(* SpecConc      two callers run evaluate_dataset concurrently; each call  *)
(*               is split at its statement boundaries (duplicate check,    *)
(*               dataset validation, insert and commit) under READ         *)
(*               COMMITTED, the isolation level the module leaves at its   *)
(*               default.                                                  *)
(***************************************************************************)
EXTENDS Integers, Sequences, FiniteSets, TLC

VARIABLES jobs, snapshots, now, lowlevel, last, calls

vars == <<jobs, snapshots, now, lowlevel, last, calls>>

(***************************************************************************)
(* Bounds of the model.                                                    *)
(***************************************************************************)
MaxJobs == 3
MaxTime == 4
MaxEnqueueTime == 3
MaxSnapshotTime == 2
MaxSnapshots == 2
MaxWorkerTime == 3

(***************************************************************************)
(* Module constants.                                                       *)
(***************************************************************************)
STATUS_PENDING == "pending"
STATUS_RUNNING == "running"
STATUS_DONE == "done"
STATUS_FAILED == "failed"
FILTER_ARTIST == "artist"

\* Python None, SQL NULL.
None == "None"
\* The id that stands for "no row" in a return value.
NoId == 0

\* Python values used as arguments.  "True" and "False" are the two bools;
\* "1" is the int 1, truthy but not a bool.
PyTrue == "True"
PyFalse == "False"
PyInt1 == "1"

NormalizeInputs == {PyTrue, PyFalse, PyInt1}
FilterInputs == {None, FILTER_ARTIST, "genre"}
StatusInputs == {STATUS_PENDING, STATUS_RUNNING, STATUS_DONE, STATUS_FAILED, "bogus"}
MsgInputs == {None, "msg"}
ResultInputs == {"res"}
SnapshotInputs == {"snapA", "snapB"}

Recordings == {"r1", "r2", "r3"}
DatasetIds == {"d1", "d2"}

Callers == {1, 2}

(***************************************************************************)
(* Collaborators.  db.dataset.get returns the live dataset document, which *)
(* its owner may edit between calls, so each call draws the document it    *)
(* sees.  A document is kept by the fields the completeness schema reads.  *)
(***************************************************************************)
Class(has_name, recordings) == [has_name |-> has_name, recordings |-> recordings]

Doc(has_name, has_classes, classes) == [has_name |-> has_name, has_classes |-> has_classes, classes |-> classes]

\* Two classes sharing r2.
DocTwoClasses == Doc(TRUE, TRUE, <<Class(TRUE, <<"r1", "r2">>), Class(TRUE, <<"r2", "r3">>)>>)
\* r2 before r1, and r1 repeated in a second class.
DocRepeated == Doc(TRUE, TRUE, <<Class(TRUE, <<"r2", "r1">>), Class(TRUE, <<"r1">>)>>)
\* A class with an empty recordings list.
DocEmptyClass == Doc(TRUE, TRUE, <<Class(TRUE, <<"r3">>), Class(TRUE, <<>>)>>)
\* A document whose "classes" field is missing.
DocMissingClasses == Doc(TRUE, FALSE, <<>>)

DocInputs == {DocTwoClasses, DocRepeated, DocEmptyClass, DocMissingClasses}

\* The document recorded for a call that never fetched one.
NoDoc == Doc(FALSE, FALSE, <<>>)

\* jsonschema.validate(dataset, db.dataset.JSON_SCHEMA_COMPLETE): TRUE when
\* the document conforms.
jsonschema_validate(dataset) ==
    /\ dataset.has_name
    /\ dataset.has_classes
    /\ \A i \in DOMAIN dataset.classes :
          /\ dataset.classes[i].has_name
          /\ Len(dataset.classes[i].recordings) >= 1

\* db.data.count_lowlevel(recording_mbid): the number of low-level documents
\* stored for the recording.
count_lowlevel(ll, recording_mbid) == IF recording_mbid \in ll THEN 1 ELSE 0

(***************************************************************************)
(* validate_dataset.  The result carries the exception raised (None when   *)
(* the dataset is accepted), the recording the exception names, and the    *)
(* sequence of count_lowlevel lookups the pass performed.                  *)
(***************************************************************************)
IncompleteDatasetException == "IncompleteDatasetException"
JobExistsException == "JobExistsException"
IncorrectJobStatusException == "IncorrectJobStatusException"
ValueError == "ValueError"

ValidationResult(exc, detail, lookups) == [exc |-> exc, detail |-> detail, lookups |-> lookups]

\* The two nested for loops, from class ci and recording ri onwards.
\* rec_memo is the set of keys whose value is True.  The memo test of line 80
\* ends in `pass`, so control always reaches the lookup of line 82.
RECURSIVE validate_loop(_, _, _, _, _, _)
validate_loop(dataset, ll, ci, ri, rec_memo, lookups) ==
    IF ci > Len(dataset.classes)
    THEN ValidationResult(None, None, lookups)
    ELSE IF ri > Len(dataset.classes[ci].recordings)
    THEN validate_loop(dataset, ll, ci + 1, 1, rec_memo, lookups)
    ELSE LET recording_mbid == dataset.classes[ci].recordings[ri]
             looked == Append(lookups, recording_mbid)
         IN  IF count_lowlevel(ll, recording_mbid) > 0
             THEN validate_loop(dataset, ll, ci, ri + 1, rec_memo \cup {recording_mbid}, looked)
             ELSE ValidationResult(IncompleteDatasetException, recording_mbid, looked)

\* A pass that walks the classes from the last to the first.
validate_dataset_reversed(dataset, ll) ==
    LET n == Len(dataset.classes)
        rev == [dataset EXCEPT !.classes = [i \in 1..n |-> dataset.classes[n + 1 - i]]]
    IN  IF ~jsonschema_validate(dataset)
        THEN ValidationResult(IncompleteDatasetException, "schema", <<>>)
        ELSE validate_loop(rev, ll, 1, 1, {}, <<>>)

validate_dataset(dataset, ll) ==
    IF ~jsonschema_validate(dataset)
    THEN ValidationResult(IncompleteDatasetException, "schema", <<>>)
    ELSE validate_loop(dataset, ll, 1, 1, {}, <<>>)

(***************************************************************************)
(* The dataset_eval_jobs table: a sequence of rows in insertion order.     *)
(***************************************************************************)
ActiveStatuses == {STATUS_PENDING, STATUS_RUNNING}

ValidStatuses == {STATUS_PENDING, STATUS_RUNNING, STATUS_DONE, STATUS_FAILED}

\* Python None returned in place of a row.
NoneRow == [id |-> NoId]

\* A count over the dataset's jobs of every status.
_job_exists_any(js, dataset_id) ==
    Cardinality({i \in DOMAIN js : js[i].dataset_id = dataset_id}) > 0

_job_exists(js, dataset_id) ==
    Cardinality({i \in DOMAIN js : js[i].dataset_id = dataset_id /\ js[i].status \in ActiveStatuses}) > 0

job_exists(dataset_id) == _job_exists(jobs, dataset_id)

isinstance_bool(v) == v \in {PyTrue, PyFalse}

\* json.dumps of one Python value: a JSON literal, number or string.
json_dumps_value(v) ==
    IF v = PyTrue THEN [kind |-> "literal", text |-> "true"]
    ELSE IF v = PyFalse THEN [kind |-> "literal", text |-> "false"]
    ELSE IF v = None THEN [kind |-> "literal", text |-> "null"]
    ELSE IF v = PyInt1 THEN [kind |-> "number", text |-> "1"]
    ELSE [kind |-> "string", text |-> v]

\* json.dumps({"normalize": normalize, "filter_type": filter_type}): the
\* members of the object in the order the dict literal gives them.
json_dumps_options(normalize, filter_type) ==
    << <<"normalize", json_dumps_value(normalize)>>, <<"filter_type", json_dumps_value(filter_type)>> >>

\* uuid_generate_v4(): an id no row of the table carries.
uuid_generate_v4(js) == Len(js) + 1

CreateResult(exc, js, ret) == [exc |-> exc, jobs |-> js, ret |-> ret]

\* An insert that leaves filter_type out of the stored options.
_create_job_no_filter(js, dataset_id, normalize, filter_type, ts) ==
    IF ~isinstance_bool(normalize)
    THEN CreateResult(ValueError, js, NoId)
    ELSE IF filter_type # None /\ filter_type \notin {FILTER_ARTIST}
    THEN CreateResult(ValueError, js, NoId)
    ELSE LET job_id == uuid_generate_v4(js)
             row == [id |-> job_id,
                     dataset_id |-> dataset_id,
                     status |-> STATUS_PENDING,
                     status_msg |-> None,
                     result |-> None,
                     options |-> json_dumps_options(normalize, None),
                     created |-> ts,
                     updated |-> ts]
         IN  CreateResult(None, Append(js, row), job_id)

\* An insert that stores an empty document in result instead of NULL.
_create_job_empty_result(js, dataset_id, normalize, filter_type, ts) ==
    IF ~isinstance_bool(normalize)
    THEN CreateResult(ValueError, js, NoId)
    ELSE IF filter_type # None /\ filter_type \notin {FILTER_ARTIST}
    THEN CreateResult(ValueError, js, NoId)
    ELSE LET job_id == uuid_generate_v4(js)
             row == [id |-> job_id,
                     dataset_id |-> dataset_id,
                     status |-> STATUS_PENDING,
                     status_msg |-> None,
                     result |-> "{}",
                     options |-> json_dumps_options(normalize, filter_type),
                     created |-> ts,
                     updated |-> ts]
         IN  CreateResult(None, Append(js, row), job_id)

\* A _create_job that takes any normalize for a flag.
_create_job_truthy(js, dataset_id, normalize, filter_type, ts) ==
    IF filter_type # None /\ filter_type \notin {FILTER_ARTIST}
    THEN CreateResult(ValueError, js, NoId)
    ELSE LET job_id == uuid_generate_v4(js)
             row == [id |-> job_id,
                     dataset_id |-> dataset_id,
                     status |-> STATUS_PENDING,
                     status_msg |-> None,
                     result |-> None,
                     options |-> json_dumps_options(normalize, filter_type),
                     created |-> ts,
                     updated |-> ts]
         IN  CreateResult(None, Append(js, row), job_id)

\* ts is the timestamp of the enclosing transaction, the column default of
\* created and updated; status_msg and result default to NULL.
_create_job(js, dataset_id, normalize, filter_type, ts) ==
    IF ~isinstance_bool(normalize)
    THEN CreateResult(ValueError, js, NoId)
    ELSE IF filter_type # None /\ filter_type \notin {FILTER_ARTIST}
    THEN CreateResult(ValueError, js, NoId)
    ELSE LET job_id == uuid_generate_v4(js)
             row == [id |-> job_id,
                     dataset_id |-> dataset_id,
                     status |-> STATUS_PENDING,
                     status_msg |-> None,
                     result |-> None,
                     options |-> json_dumps_options(normalize, filter_type),
                     created |-> ts,
                     updated |-> ts]
         IN  CreateResult(None, Append(js, row), job_id)

\* The rows an ORDER BY created ASC may return first: the rows of `rows`
\* (a set of indices) with the least created.
Earliest(js, rows) == {i \in rows : \A k \in rows : js[i].created <= js[k].created}

\* The rows of `rows` with the greatest created.
Latest(js, rows) == {i \in rows : \A k \in rows : js[i].created >= js[k].created}

\* A query that orders the pending jobs newest first.
get_next_pending_job_newest(js) ==
    LET pending == {i \in DOMAIN js : js[i].status = STATUS_PENDING}
    IN  IF pending = {} THEN {NoneRow} ELSE {js[i] : i \in Latest(js, pending)}

\* get_next_pending_job: the set of values the call may return.
get_next_pending_job(js) ==
    LET pending == {i \in DOMAIN js : js[i].status = STATUS_PENDING}
    IN  IF pending = {} THEN {NoneRow} ELSE {js[i] : i \in Earliest(js, pending)}

get_job(js, job_id) ==
    LET hit == {i \in DOMAIN js : js[i].id = job_id}
    IN  IF hit = {} THEN NoneRow ELSE js[CHOOSE i \in hit : TRUE]

\* The orders ORDER BY created ASC may give to the rows `rows`.
RECURSIVE OrderByCreated(_, _)
OrderByCreated(js, rows) ==
    IF rows = {} THEN {<<>>}
    ELSE UNION {{<<js[i]>> \o rest : rest \in OrderByCreated(js, rows \ {i})} : i \in Earliest(js, rows)}

\* A query that returns only the jobs still pending or running.
get_jobs_for_dataset_active(js, dataset_id) ==
    OrderByCreated(js, {i \in DOMAIN js : js[i].dataset_id = dataset_id /\ js[i].status \in ActiveStatuses})

\* get_jobs_for_dataset: the set of lists the call may return.
get_jobs_for_dataset(js, dataset_id) ==
    OrderByCreated(js, {i \in DOMAIN js : js[i].dataset_id = dataset_id})

UpdateResult(exc, js) == [exc |-> exc, jobs |-> js]

\* An update that inserts a row when no row has the id.
set_job_result_upsert(js, job_id, result, ts) ==
    IF \E i \in DOMAIN js : js[i].id = job_id
    THEN UpdateResult(None,
        [i \in DOMAIN js |->
            IF js[i].id = job_id
            THEN [js[i] EXCEPT !.result = result, !.updated = ts]
            ELSE js[i]])
    ELSE UpdateResult(None,
        Append(js, [id |-> job_id, dataset_id |-> None, status |-> STATUS_PENDING,
                    status_msg |-> None, result |-> result,
                    options |-> json_dumps_options(None, None), created |-> ts, updated |-> ts]))

\* An update that also marks the job done.
set_job_result_done(js, job_id, result, ts) ==
    UpdateResult(None,
        [i \in DOMAIN js |->
            IF js[i].id = job_id
            THEN [js[i] EXCEPT !.result = result, !.updated = ts, !.status = STATUS_DONE]
            ELSE js[i]])

set_job_result(js, job_id, result, ts) ==
    UpdateResult(None,
        [i \in DOMAIN js |->
            IF js[i].id = job_id
            THEN [js[i] EXCEPT !.result = result, !.updated = ts]
            ELSE js[i]])

\* An update that writes whatever status it is given.
set_job_status_unchecked(js, job_id, status, status_msg, ts) ==
    UpdateResult(None,
        [i \in DOMAIN js |->
            IF js[i].id = job_id
            THEN [js[i] EXCEPT !.status = status, !.status_msg = status_msg, !.updated = ts]
            ELSE js[i]])

\* An update that keeps the stored message when none is given and does not
\* refresh updated.
set_job_status_stale(js, job_id, status, status_msg, ts) ==
    IF status \notin ValidStatuses
    THEN UpdateResult(IncorrectJobStatusException, js)
    ELSE UpdateResult(None,
        [i \in DOMAIN js |->
            IF js[i].id = job_id
            THEN [js[i] EXCEPT !.status = status,
                               !.status_msg = IF status_msg = None THEN @ ELSE status_msg]
            ELSE js[i]])

\* An update that also clears the stored result.
set_job_status_clears_result(js, job_id, status, status_msg, ts) ==
    IF status \notin ValidStatuses
    THEN UpdateResult(IncorrectJobStatusException, js)
    ELSE UpdateResult(None,
        [i \in DOMAIN js |->
            IF js[i].id = job_id
            THEN [js[i] EXCEPT !.status = status, !.status_msg = status_msg,
                               !.updated = ts, !.result = None]
            ELSE js[i]])

\* An update that refuses to move a finished job back to an active status.
set_job_status_guarded(js, job_id, status, status_msg, ts) ==
    IF status \notin ValidStatuses
    THEN UpdateResult(IncorrectJobStatusException, js)
    ELSE IF \E i \in DOMAIN js :
                /\ js[i].id = job_id
                /\ js[i].status \in {STATUS_DONE, STATUS_FAILED}
                /\ status \in {STATUS_PENDING, STATUS_RUNNING}
    THEN UpdateResult(IncorrectJobStatusException, js)
    ELSE UpdateResult(None,
        [i \in DOMAIN js |->
            IF js[i].id = job_id
            THEN [js[i] EXCEPT !.status = status, !.status_msg = status_msg, !.updated = ts]
            ELSE js[i]])

set_job_status(js, job_id, status, status_msg, ts) ==
    IF status \notin ValidStatuses
    THEN UpdateResult(IncorrectJobStatusException, js)
    ELSE UpdateResult(None,
        [i \in DOMAIN js |->
            IF js[i].id = job_id
            THEN [js[i] EXCEPT !.status = status, !.status_msg = status_msg, !.updated = ts]
            ELSE js[i]])

(***************************************************************************)
(* The dataset_snapshot table: a function from id to data.                 *)
(***************************************************************************)
NoneSnapshot == [id |-> NoId]

get_dataset_snapshot(sn, id) ==
    IF id \in DOMAIN sn THEN [id |-> id, data |-> sn[id]] ELSE NoneSnapshot

SnapshotResult(sn, ret) == [snapshots |-> sn, ret |-> ret]

\* An insert that reuses the id of the first row once the table has one.
add_dataset_snapshot_reuse(sn, data) ==
    LET snapshot_id == 1
    IN  SnapshotResult([i \in DOMAIN sn \cup {snapshot_id} |-> IF i = snapshot_id THEN data ELSE sn[i]], snapshot_id)

\* The id is the column default, a value no row carries.
add_dataset_snapshot(sn, data) ==
    LET snapshot_id == Cardinality(DOMAIN sn) + 1
    IN  SnapshotResult([i \in DOMAIN sn \cup {snapshot_id} |-> IF i = snapshot_id THEN data ELSE sn[i]], snapshot_id)

(***************************************************************************)
(* State.                                                                  *)
(*   jobs       the dataset_eval_jobs table                                *)
(*   snapshots  the dataset_snapshot table                                 *)
(*   now        the latest timestamp the database has handed out; every    *)
(*              transaction that writes a row reads a later one            *)
(*   lowlevel   the recordings that have low-level data                    *)
(*   last       the most recent call: its arguments, the exception it      *)
(*              raised (None when it returned), its return value, and what *)
(*              it asked of the collaborators                              *)
(*   calls      the evaluate_dataset calls in flight (SpecConc)            *)
(***************************************************************************)
NoCall ==
    [op |-> "none", dataset_id |-> None, job_id |-> NoId,
     normalize |-> None, filter_type |-> None, status |-> None, status_msg |-> None,
     result |-> None, data |-> None,
     exc |-> None, ret |-> NoId, detail |-> None,
     fetched |-> FALSE, doc |-> NoDoc, lookups |-> <<>>, found |-> FALSE]

IdleCall ==
    [pc |-> "idle", dataset_id |-> None, normalize |-> None, filter_type |-> None,
     ts |-> 0, doc |-> NoDoc, exc |-> None, ret |-> NoId]

Init ==
    /\ jobs = <<>>
    /\ snapshots = <<>>
    /\ now = 0
    /\ lowlevel \in SUBSET Recordings
    /\ last = NoCall
    /\ calls = [c \in Callers |-> IdleCall]

\* evaluate_dataset on an autocommit connection that inserts the row before
\* it validates the dataset: the row stays when validation raises.
evaluate_dataset_autocommit(dataset_id, normalize, filter_type, doc) ==
    LET call == [NoCall EXCEPT !.op = "evaluate_dataset", !.dataset_id = dataset_id,
                               !.normalize = normalize, !.filter_type = filter_type]
        v == validate_dataset(doc, lowlevel)
        fetched == [call EXCEPT !.fetched = TRUE, !.doc = doc, !.lookups = v.lookups]
        c == _create_job(jobs, dataset_id, normalize, filter_type, now + 1)
    IN  IF _job_exists(jobs, dataset_id)
        THEN /\ last' = [call EXCEPT !.exc = JobExistsException]
             /\ UNCHANGED <<jobs, snapshots, now, lowlevel, calls>>
        ELSE IF c.exc # None
        THEN /\ last' = [call EXCEPT !.exc = c.exc]
             /\ UNCHANGED <<jobs, snapshots, now, lowlevel, calls>>
        ELSE /\ jobs' = c.jobs
             /\ now' = now + 1
             /\ last' = IF v.exc # None
                         THEN [fetched EXCEPT !.exc = v.exc, !.detail = v.detail]
                         ELSE [fetched EXCEPT !.ret = c.ret]
             /\ UNCHANGED <<snapshots, lowlevel, calls>>

\* evaluate_dataset that validates the dataset before it looks for an
\* active job.
evaluate_dataset_validate_first(dataset_id, normalize, filter_type, doc) ==
    LET call == [NoCall EXCEPT !.op = "evaluate_dataset", !.dataset_id = dataset_id,
                               !.normalize = normalize, !.filter_type = filter_type]
        v == validate_dataset(doc, lowlevel)
        fetched == [call EXCEPT !.fetched = TRUE, !.doc = doc, !.lookups = v.lookups]
        c == _create_job(jobs, dataset_id, normalize, filter_type, now + 1)
    IN  IF v.exc # None
        THEN /\ last' = [fetched EXCEPT !.exc = v.exc, !.detail = v.detail]
             /\ UNCHANGED <<jobs, snapshots, now, lowlevel, calls>>
        ELSE IF _job_exists(jobs, dataset_id)
        THEN /\ last' = [fetched EXCEPT !.exc = JobExistsException]
             /\ UNCHANGED <<jobs, snapshots, now, lowlevel, calls>>
        ELSE IF c.exc # None
        THEN /\ last' = [fetched EXCEPT !.exc = c.exc]
             /\ UNCHANGED <<jobs, snapshots, now, lowlevel, calls>>
        ELSE /\ jobs' = c.jobs
             /\ now' = now + 1
             /\ last' = [fetched EXCEPT !.ret = c.ret]
             /\ UNCHANGED <<snapshots, lowlevel, calls>>

\* evaluate_dataset(dataset_id, normalize, filter_type), where doc is what
\* db.dataset.get(dataset_id) returns.  The transaction commits when the
\* with block ends normally and rolls back when an exception leaves it.
evaluate_dataset(dataset_id, normalize, filter_type, doc) ==
    LET call == [NoCall EXCEPT !.op = "evaluate_dataset", !.dataset_id = dataset_id,
                               !.normalize = normalize, !.filter_type = filter_type]
        v == validate_dataset(doc, lowlevel)
        fetched == [call EXCEPT !.fetched = TRUE, !.doc = doc, !.lookups = v.lookups]
        c == _create_job(jobs, dataset_id, normalize, filter_type, now + 1)
    IN  IF _job_exists(jobs, dataset_id)
        THEN /\ last' = [call EXCEPT !.exc = JobExistsException]
             /\ UNCHANGED <<jobs, snapshots, now, lowlevel, calls>>
        ELSE IF v.exc # None
        THEN /\ last' = [fetched EXCEPT !.exc = v.exc, !.detail = v.detail]
             /\ UNCHANGED <<jobs, snapshots, now, lowlevel, calls>>
        ELSE IF c.exc # None
        THEN /\ last' = [fetched EXCEPT !.exc = c.exc]
             /\ UNCHANGED <<jobs, snapshots, now, lowlevel, calls>>
        ELSE /\ jobs' = c.jobs
             /\ now' = now + 1
             /\ last' = [fetched EXCEPT !.ret = c.ret]
             /\ UNCHANGED <<snapshots, lowlevel, calls>>

\* The bounds of a run: the clock stops at maxTime and the table at MaxJobs.
Bounded(maxTime) == now' <= maxTime /\ Len(jobs') <= MaxJobs

EvaluateDatasetOver(normalizes, filters, docs, maxTime) ==
    \E dataset_id \in DatasetIds, normalize \in normalizes, filter_type \in filters, doc \in docs :
        /\ evaluate_dataset(dataset_id, normalize, filter_type, doc)
        /\ Bounded(maxTime)

\* Whether an UPDATE ... WHERE id = job_id writes a row.
Matches(js, job_id) == \E i \in DOMAIN js : js[i].id = job_id

\* The job ids callers pass: those of the rows, and one that matches no row.
JobIdInputs == 1..(Len(jobs) + 1)

SetJobStatusOver(statuses, msgs, maxTime) ==
    \E job_id \in JobIdInputs, status \in statuses, status_msg \in msgs :
        LET u == set_job_status(jobs, job_id, status, status_msg, now + 1)
            wrote == u.exc = None /\ Matches(jobs, job_id)
        IN  /\ jobs' = u.jobs
            /\ now' = IF wrote THEN now + 1 ELSE now
            /\ last' = [NoCall EXCEPT !.op = "set_job_status", !.job_id = job_id,
                                       !.status = status, !.status_msg = status_msg,
                                       !.exc = u.exc]
            /\ UNCHANGED <<snapshots, lowlevel, calls>>
            /\ Bounded(maxTime)

SetJobResultOver(maxTime) ==
    \E job_id \in JobIdInputs, result \in ResultInputs :
        LET u == set_job_result(jobs, job_id, result, now + 1)
            wrote == Matches(jobs, job_id)
        IN  /\ jobs' = u.jobs
            /\ now' = IF wrote THEN now + 1 ELSE now
            /\ last' = [NoCall EXCEPT !.op = "set_job_result", !.job_id = job_id,
                                       !.result = result, !.exc = u.exc]
            /\ UNCHANGED <<snapshots, lowlevel, calls>>
            /\ Bounded(maxTime)

AddDatasetSnapshot ==
    \E data \in SnapshotInputs :
        LET a == add_dataset_snapshot(snapshots, data)
        IN  /\ Cardinality(DOMAIN snapshots) < MaxSnapshots
            /\ snapshots' = a.snapshots
            /\ last' = [NoCall EXCEPT !.op = "add_dataset_snapshot", !.data = data, !.ret = a.ret]
            /\ UNCHANGED <<jobs, now, lowlevel, calls>>

(***************************************************************************)
(* Spec: the job lifecycle.  Every status and message, results, and        *)
(* evaluate_dataset over one option set and a complete and an incomplete   *)
(* document.                                                               *)
(***************************************************************************)
EvaluateDataset == EvaluateDatasetOver({PyTrue}, {None}, {DocTwoClasses, DocEmptyClass}, MaxTime)

SetJobStatus == SetJobStatusOver(StatusInputs, MsgInputs, MaxTime)

SetJobResult == SetJobResultOver(MaxTime)

Next ==
    \/ EvaluateDataset
    \/ SetJobStatus
    \/ SetJobResult

Spec == Init /\ [][Next]_vars

(***************************************************************************)
(* SpecEnqueue: evaluate_dataset over every argument and document, with    *)
(* the status update that finishes a job.                                  *)
(***************************************************************************)
EnqEvaluateDataset == EvaluateDatasetOver(NormalizeInputs, FilterInputs, DocInputs, MaxEnqueueTime)

EnqSetJobStatus == SetJobStatusOver({STATUS_DONE}, {None}, MaxEnqueueTime)

NextEnqueue ==
    \/ EnqEvaluateDataset
    \/ EnqSetJobStatus

SpecEnqueue == Init /\ [][NextEnqueue]_vars

(***************************************************************************)
(* SpecSnapshot: the snapshot table beside the job table.                  *)
(***************************************************************************)
SnapEvaluateDataset == EvaluateDatasetOver({PyTrue}, {None}, {DocRepeated}, MaxSnapshotTime)

SnapSetJobStatus == SetJobStatusOver({STATUS_DONE}, {None}, MaxSnapshotTime)

SnapSetJobResult == SetJobResultOver(MaxSnapshotTime)

NextSnapshot ==
    \/ AddDatasetSnapshot
    \/ SnapEvaluateDataset
    \/ SnapSetJobStatus
    \/ SnapSetJobResult

SpecSnapshot == Init /\ [][NextSnapshot]_vars

(***************************************************************************)
(* SpecConc: two callers, one evaluate_dataset call each.  A call is three *)
(* steps.  The database runs each transaction READ COMMITTED: a query sees *)
(* the rows committed before it, and the row a call inserts is committed   *)
(* when its with block ends, right after the INSERT.                       *)
(***************************************************************************)
\* BEGIN and the duplicate check of line 37.  The transaction's timestamp is
\* read here, with its first statement.
EnqBegin(c, dataset_id, normalize, filter_type) ==
    /\ calls[c].pc = "idle"
    /\ now' = now + 1
    /\ calls' = [calls EXCEPT ![c] =
            IF _job_exists(jobs, dataset_id)
            THEN [@ EXCEPT !.pc = "done", !.dataset_id = dataset_id, !.normalize = normalize,
                           !.filter_type = filter_type, !.ts = now + 1, !.exc = JobExistsException]
            ELSE [@ EXCEPT !.pc = "validate", !.dataset_id = dataset_id, !.normalize = normalize,
                           !.filter_type = filter_type, !.ts = now + 1]]
    /\ UNCHANGED <<jobs, snapshots, lowlevel, last>>

\* validate_dataset(db.dataset.get(dataset_id)) of line 39.
EnqValidate(c, doc) ==
    /\ calls[c].pc = "validate"
    /\ LET v == validate_dataset(doc, lowlevel)
       IN  calls' = [calls EXCEPT ![c] =
                IF v.exc # None
                THEN [@ EXCEPT !.pc = "done", !.doc = doc, !.exc = v.exc]
                ELSE [@ EXCEPT !.pc = "create", !.doc = doc]]
    /\ UNCHANGED <<jobs, snapshots, now, lowlevel, last>>

\* _create_job of line 40 and the commit that ends the with block.
EnqCreate(c) ==
    /\ calls[c].pc = "create"
    /\ LET cr == _create_job(jobs, calls[c].dataset_id, calls[c].normalize, calls[c].filter_type, calls[c].ts)
       IN  /\ jobs' = cr.jobs
           /\ calls' = [calls EXCEPT ![c] = [@ EXCEPT !.pc = "done", !.exc = cr.exc, !.ret = cr.ret]]
    /\ UNCHANGED <<snapshots, now, lowlevel, last>>

ConcBegin ==
    \E c \in Callers, dataset_id \in DatasetIds, normalize \in {PyTrue, PyInt1}, filter_type \in {None} :
        EnqBegin(c, dataset_id, normalize, filter_type)

ConcValidate == \E c \in Callers, doc \in {DocRepeated, DocEmptyClass} : EnqValidate(c, doc)

ConcCreate == \E c \in Callers : EnqCreate(c)

NextConc ==
    \/ ConcBegin
    \/ ConcValidate
    \/ ConcCreate

SpecConc == Init /\ [][NextConc]_vars

(***************************************************************************)
(* SpecWorker: the queries of a worker, get_next_pending_job and           *)
(* job_exists, beside the calls that write the job table.  Each query is   *)
(* one SELECT: it writes no table, and `last` records what it returned.    *)
(***************************************************************************)
\* A poll that marks the job it returns as running.
GetNextPendingJobClaiming ==
    \E row \in get_next_pending_job(jobs) :
        /\ jobs' = IF row = NoneRow THEN jobs
                   ELSE set_job_status(jobs, row.id, STATUS_RUNNING, None, now + 1).jobs
        /\ now' = IF row = NoneRow THEN now ELSE now + 1
        /\ now' <= MaxWorkerTime
        /\ last' = [NoCall EXCEPT !.op = "get_next_pending_job", !.ret = row.id]
        /\ UNCHANGED <<snapshots, lowlevel, calls>>

GetNextPendingJob ==
    \E row \in get_next_pending_job(jobs) :
        /\ last' = [NoCall EXCEPT !.op = "get_next_pending_job", !.ret = row.id]
        /\ UNCHANGED <<jobs, snapshots, now, lowlevel, calls>>

JobExists ==
    \E dataset_id \in DatasetIds :
        /\ last' = [NoCall EXCEPT !.op = "job_exists", !.dataset_id = dataset_id,
                                   !.found = job_exists(dataset_id)]
        /\ UNCHANGED <<jobs, snapshots, now, lowlevel, calls>>

WorkEvaluateDataset == EvaluateDatasetOver({PyTrue}, {None}, {DocRepeated, DocMissingClasses}, MaxWorkerTime)

WorkSetJobStatus == SetJobStatusOver(ValidStatuses, {None}, MaxWorkerTime)

NextWorker ==
    \/ WorkEvaluateDataset
    \/ WorkSetJobStatus
    \/ GetNextPendingJob
    \/ JobExists

SpecWorker == Init /\ [][NextWorker]_vars

(***************************************************************************)
(* Properties.                                                             *)
(***************************************************************************)
ActiveJobs(js, dataset_id) ==
    {i \in DOMAIN js : js[i].dataset_id = dataset_id /\ js[i].status \in ActiveStatuses}

\* C1: in every reachable state, each dataset has at most one job whose
\* status is pending or running.
C1_AtMostOneActiveJob ==
    \A d \in DatasetIds : Cardinality(ActiveJobs(jobs, d)) <= 1

\* A finished call whose dataset and arguments pass every check of
\* evaluate_dataset other than the duplicate check.
AcceptableCall(c) ==
    /\ calls[c].pc = "done"
    /\ calls[c].exc \in {None, JobExistsException}
    /\ isinstance_bool(calls[c].normalize)
    /\ calls[c].filter_type \in {None, FILTER_ARTIST}

\* C2: of two evaluate_dataset calls for the same valid dataset, started
\* when it has no pending or running job, exactly one creates a job and the
\* other raises JobExistsException, however their steps interleave.
C2_ExactlyOneCallSucceeds ==
    \A c1, c2 \in Callers :
        (/\ c1 # c2
         /\ AcceptableCall(c1)
         /\ AcceptableCall(c2)
         /\ calls[c1].dataset_id = calls[c2].dataset_id)
        => /\ {calls[c1].exc, calls[c2].exc} = {None, JobExistsException}
           /\ Cardinality(ActiveJobs(jobs, calls[c1].dataset_id)) = 1

\* The Python value a JSON value of the stored options stands for.
json_loads_value(j) ==
    IF j.kind = "string" THEN j.text
    ELSE IF j.text = "true" THEN PyTrue
    ELSE IF j.text = "false" THEN PyFalse
    ELSE IF j.text = "null" THEN None
    ELSE PyInt1

\* The value of member `key` of a stored options object.
json_loads_member(options, key) ==
    json_loads_value(options[CHOOSE i \in DOMAIN options : options[i][1] = key][2])

JobIds(js) == {js[i].id : i \in DOMAIN js}

\* The positions (class, recording) of a document, and their iteration order.
Positions(doc) ==
    UNION {{<<ci, ri>> : ri \in DOMAIN doc.classes[ci].recordings} : ci \in DOMAIN doc.classes}

Before(p, q) == p[1] < q[1] \/ (p[1] = q[1] /\ p[2] <= q[2])

RecordingAt(doc, p) == doc.classes[p[1]].recordings[p[2]]

MissingPositions(doc, ll) == {p \in Positions(doc) : RecordingAt(doc, p) \notin ll}

\* C3: evaluate_dataset on a dataset that passes validation, has low-level
\* data for every recording and has no pending or running job, with a bool
\* normalize and filter_type None or 'artist', returns an id no job had,
\* appends exactly one row (pending, with these options) and makes
\* job_exists true.
C3_EnqueueCreatesPendingJob ==
    [][(/\ last'.op = "evaluate_dataset"
        /\ ~_job_exists(jobs, last'.dataset_id)
        /\ jsonschema_validate(last'.doc)
        /\ MissingPositions(last'.doc, lowlevel) = {}
        /\ isinstance_bool(last'.normalize)
        /\ last'.filter_type \in {None, FILTER_ARTIST})
       => /\ last'.exc = None
          /\ last'.ret # NoId
          /\ last'.ret \notin JobIds(jobs)
          /\ Len(jobs') = Len(jobs) + 1
          /\ SubSeq(jobs', 1, Len(jobs)) = jobs
          /\ jobs'[Len(jobs')].id = last'.ret
          /\ jobs'[Len(jobs')].dataset_id = last'.dataset_id
          /\ jobs'[Len(jobs')].status = STATUS_PENDING
          /\ json_loads_member(jobs'[Len(jobs')].options, "normalize") = last'.normalize
          /\ json_loads_member(jobs'[Len(jobs')].options, "filter_type") = last'.filter_type
          /\ Len(jobs'[Len(jobs')].options) = 2
          /\ _job_exists(jobs', last'.dataset_id)]_vars

\* A second job of a dataset, created with filter_type 'artist'.
C3_Witness ==
    /\ last.op = "evaluate_dataset"
    /\ last.exc = None
    /\ last.ret = 2
    /\ last.filter_type = FILTER_ARTIST
    /\ Len(jobs) = 2
    /\ jobs[1].dataset_id = jobs[2].dataset_id
    /\ jobs[2].status = STATUS_PENDING

\* C4: evaluate_dataset on a dataset with no pending or running job that
\* passes the schema but references a recording without low-level data
\* raises IncompleteDatasetException naming the first such recording in
\* iteration order.
C4_FirstMissingRecordingNamed ==
    [][(/\ last'.op = "evaluate_dataset"
        /\ ~_job_exists(jobs, last'.dataset_id)
        /\ jsonschema_validate(last'.doc)
        /\ MissingPositions(last'.doc, lowlevel) # {})
       => /\ last'.exc = IncompleteDatasetException
          /\ \E p \in MissingPositions(last'.doc, lowlevel) :
                /\ \A q \in MissingPositions(last'.doc, lowlevel) : Before(p, q)
                /\ last'.detail = RecordingAt(last'.doc, p)]_vars

\* r2 and r3 are both missing; r2 is named, after r1 was found.
C4_Witness ==
    /\ last.op = "evaluate_dataset"
    /\ last.exc = IncompleteDatasetException
    /\ last.doc = DocTwoClasses
    /\ lowlevel = {"r1"}
    /\ last.detail = "r2"
    /\ last.lookups = <<"r1", "r2">>

\* C5: an evaluate_dataset call that raises leaves both tables as they
\* were.
C5_FailedEnqueueWritesNothing ==
    [][(last'.op = "evaluate_dataset" /\ last'.exc # None)
       => (jobs' = jobs /\ snapshots' = snapshots)]_vars

\* A call rejected for its arguments after the dataset was validated, with
\* a job already in the table.
C5_Witness ==
    /\ last.op = "evaluate_dataset"
    /\ last.exc = ValueError
    /\ last.fetched
    /\ Len(jobs) >= 1

\* C6: set_job_status with a status outside the four statuses raises
\* IncorrectJobStatusException and changes no row.
C6_BogusStatusRejected ==
    [][(last'.op = "set_job_status" /\ last'.status \notin ValidStatuses)
       => /\ last'.exc = IncorrectJobStatusException
          /\ jobs' = jobs
          /\ snapshots' = snapshots]_vars

\* The rejected call names a job that exists and carries a message.
C6_Witness ==
    /\ last.op = "set_job_status"
    /\ last.exc = IncorrectJobStatusException
    /\ Matches(jobs, last.job_id)
    /\ get_job(jobs, last.job_id).status_msg = "msg"
    /\ last.status_msg = None

\* C7: set_job_status(job_id, s, msg) on an existing job with a valid s
\* leaves get_job(job_id) with status s, status_msg msg (None when no
\* message is given) and an updated later than before the call.
C7_StatusWritten ==
    [][(/\ last'.op = "set_job_status"
        /\ last'.status \in ValidStatuses
        /\ Matches(jobs, last'.job_id))
       => /\ last'.exc = None
          /\ get_job(jobs', last'.job_id).status = last'.status
          /\ get_job(jobs', last'.job_id).status_msg = last'.status_msg
          /\ get_job(jobs', last'.job_id).updated > get_job(jobs, last'.job_id).updated]_vars

\* A call without a message on a job updated at least twice since it was
\* created.
C7_Witness ==
    /\ last.op = "set_job_status"
    /\ last.exc = None
    /\ Matches(jobs, last.job_id)
    /\ last.status = STATUS_RUNNING
    /\ last.status_msg = None
    /\ get_job(jobs, last.job_id).status = STATUS_RUNNING
    /\ get_job(jobs, last.job_id).status_msg = None
    /\ get_job(jobs, last.job_id).updated >= get_job(jobs, last.job_id).created + 2

PendingJobs(js) == {i \in DOMAIN js : js[i].status = STATUS_PENDING}

\* C8: get_next_pending_job returns None exactly when no job is pending,
\* and otherwise a pending job whose created is at most that of every
\* pending job.
C8_NextPendingIsOldest ==
    /\ get_next_pending_job(jobs) # {}
    /\ \A r \in get_next_pending_job(jobs) :
          IF PendingJobs(jobs) = {}
          THEN r = NoneRow
          ELSE \E i \in PendingJobs(jobs) :
                  /\ r = jobs[i]
                  /\ r.status = STATUS_PENDING
                  /\ \A k \in PendingJobs(jobs) : r.created <= jobs[k].created

\* The oldest job is done; two younger jobs are pending.
C8_Witness ==
    /\ Len(jobs) = 3
    /\ jobs[1].status = STATUS_DONE
    /\ jobs[2].status = STATUS_PENDING
    /\ jobs[3].status = STATUS_PENDING
    /\ jobs[2] \in get_next_pending_job(jobs)

JobsOfDataset(js, dataset_id) == {i \in DOMAIN js : js[i].dataset_id = dataset_id}

\* C9: get_jobs_for_dataset(D) returns the jobs of D, of every status, each
\* once, by ascending created, and the empty list when D has none.
C9_JobsForDatasetOldestFirst ==
    \A d \in DatasetIds :
        /\ get_jobs_for_dataset(jobs, d) # {}
        /\ \A L \in get_jobs_for_dataset(jobs, d) :
              /\ Len(L) = Cardinality(JobsOfDataset(jobs, d))
              /\ {L[k] : k \in DOMAIN L} = {jobs[i] : i \in JobsOfDataset(jobs, d)}
              /\ \A k, l \in DOMAIN L : k < l => L[k].created <= L[l].created
              /\ JobsOfDataset(jobs, d) = {} => L = <<>>

\* A dataset with a failed and a pending job, beside a job of the other
\* dataset.
C9_Witness ==
    \E d \in DatasetIds :
        /\ Cardinality(JobsOfDataset(jobs, d)) = 2
        /\ Len(jobs) = 3
        /\ {jobs[i].status : i \in JobsOfDataset(jobs, d)} = {STATUS_FAILED, STATUS_PENDING}

SnapshotIdInputs == 1..(MaxSnapshots + 1)

\* C10: add_dataset_snapshot(data) returns an id under which
\* get_dataset_snapshot returns {id, data}; no later call changes what an
\* id returns; an id that no add_dataset_snapshot call returned gives None.
C10_SnapshotsKept ==
    /\ \A id \in SnapshotIdInputs : get_dataset_snapshot(snapshots, id) = NoneSnapshot
    /\ [][/\ last'.op = "add_dataset_snapshot"
               => get_dataset_snapshot(snapshots', last'.ret) = [id |-> last'.ret, data |-> last'.data]
           /\ \A id \in SnapshotIdInputs :
                 /\ get_dataset_snapshot(snapshots, id) # NoneSnapshot
                       => get_dataset_snapshot(snapshots', id) = get_dataset_snapshot(snapshots, id)
                 /\ (get_dataset_snapshot(snapshots, id) = NoneSnapshot
                        /\ get_dataset_snapshot(snapshots', id) # NoneSnapshot)
                       => (last'.op = "add_dataset_snapshot" /\ last'.ret = id)]_vars

\* Two snapshots with different data, read after a job was created and
\* finished.
C10_Witness ==
    /\ DOMAIN snapshots = {1, 2}
    /\ get_dataset_snapshot(snapshots, 1).data = "snapA"
    /\ get_dataset_snapshot(snapshots, 2).data = "snapB"
    /\ get_dataset_snapshot(snapshots, 3) = NoneSnapshot
    /\ last.op = "set_job_status"
    /\ Len(jobs) = 1

\* C11: set_job_status with a valid status and set_job_result, given a
\* job_id that no row carries, raise nothing and change neither table.
C11_MissingJobIsNoOp ==
    [][(/\ last'.op \in {"set_job_status", "set_job_result"}
        /\ last'.op = "set_job_status" => last'.status \in ValidStatuses
        /\ ~Matches(jobs, last'.job_id))
       => /\ last'.exc = None
          /\ jobs' = jobs
          /\ snapshots' = snapshots]_vars

\* set_job_result on an id that is not in a table of two jobs.
C11_Witness ==
    /\ last.op = "set_job_result"
    /\ last.exc = None
    /\ Len(jobs) = 2
    /\ ~Matches(jobs, last.job_id)

\* C12: set_job_result on an existing job writes its result and updated
\* and nothing else: the job's other fields and every other row stay.
C12_ResultWriteFrame ==
    [][(last'.op = "set_job_result" /\ Matches(jobs, last'.job_id))
       => /\ DOMAIN jobs' = DOMAIN jobs
          /\ \A i \in DOMAIN jobs :
                IF jobs[i].id = last'.job_id
                THEN /\ jobs'[i] = [jobs[i] EXCEPT !.result = last'.result, !.updated = jobs'[i].updated]
                     /\ jobs'[i].updated # jobs[i].updated
                ELSE jobs'[i] = jobs[i]]_vars

\* The result is written to a running job that carries a message, beside
\* another job.
C12_Witness ==
    /\ last.op = "set_job_result"
    /\ Len(jobs) = 2
    /\ Matches(jobs, last.job_id)
    /\ get_job(jobs, last.job_id).status = STATUS_RUNNING
    /\ get_job(jobs, last.job_id).status_msg = "msg"
    /\ get_job(jobs, last.job_id).result = "res"

\* C13: set_job_status on an existing job writes its status, status_msg
\* and updated and nothing else, so the result stored while the job ran and
\* the options stored at creation are still there once the job is done.
C13_StatusWriteFrame ==
    [][(/\ last'.op = "set_job_status"
        /\ last'.status \in ValidStatuses
        /\ Matches(jobs, last'.job_id))
       => /\ DOMAIN jobs' = DOMAIN jobs
          /\ \A i \in DOMAIN jobs :
                IF jobs[i].id = last'.job_id
                THEN jobs'[i] = [jobs[i] EXCEPT !.status = jobs'[i].status,
                                                !.status_msg = jobs'[i].status_msg,
                                                !.updated = jobs'[i].updated]
                ELSE jobs'[i] = jobs[i]]_vars

\* The end of enqueue, set_job_status(J, running), set_job_result(J, r),
\* set_job_status(J, done): three writes on the only job, the last one
\* the status done, the result and the creation options in place.
C13_Witness ==
    /\ last.op = "set_job_status"
    /\ last.status = STATUS_DONE
    /\ last.exc = None
    /\ Len(jobs) = 1
    /\ last.job_id = jobs[1].id
    /\ get_job(jobs, last.job_id).status = STATUS_DONE
    /\ get_job(jobs, last.job_id).result = "res"
    /\ get_job(jobs, last.job_id).options = json_dumps_options(PyTrue, None)
    /\ get_job(jobs, last.job_id).updated = get_job(jobs, last.job_id).created + 3

\* C14: within one validate_dataset pass count_lowlevel is called at most
\* once for each recording id: the lookups of a call name no recording
\* twice.
C14_LookupOncePerRecording ==
    last.op = "evaluate_dataset" =>
        \A k, l \in DOMAIN last.lookups :
            last.lookups[k] = last.lookups[l] => k = l

\* C15: set_job_status checks no transition: on every existing job, whatever
\* its current status, a call with each of the four statuses raises nothing
\* and leaves the job in that status.
C15_AnyTransitionAccepted ==
    \A i \in DOMAIN jobs : \A status \in ValidStatuses : \A status_msg \in MsgInputs :
        LET u == set_job_status(jobs, jobs[i].id, status, status_msg, now + 1)
        IN  /\ u.exc = None
            /\ get_job(u.jobs, jobs[i].id).status = status

\* A finished job set back to pending: the dataset's second job, created at
\* time 3, could only be created while the first was done or failed after
\* the write at time 2, and the write at time 4 makes the first pending.
C15_Witness ==
    /\ last.op = "set_job_status"
    /\ last.status = STATUS_PENDING
    /\ last.exc = None
    /\ Len(jobs) = 2
    /\ last.job_id = jobs[1].id
    /\ jobs[1].dataset_id = jobs[2].dataset_id
    /\ jobs[1].created = 1
    /\ jobs[2].created = 3
    /\ jobs[1].status = STATUS_PENDING
    /\ jobs[1].updated = 4

\* C16: the duplicate guard runs before validation: an evaluate_dataset
\* call for a dataset with a pending or running job raises
\* JobExistsException whatever the dataset document is, and neither
\* db.dataset.get nor db.data.count_lowlevel is called.
C16_GuardBeforeValidation ==
    [][(last'.op = "evaluate_dataset" /\ _job_exists(jobs, last'.dataset_id))
       => /\ last'.exc = JobExistsException
          /\ ~last'.fetched
          /\ last'.lookups = <<>>
          /\ jobs' = jobs]_vars

\* A rejected call where recordings lack low-level data, so that some of the
\* documents the call may meet would fail validation.
C16_Witness ==
    /\ last.op = "evaluate_dataset"
    /\ last.exc = JobExistsException
    /\ ~last.fetched
    /\ _job_exists(jobs, last.dataset_id)
    /\ lowlevel = {"r1", "r2"}

\* C17: get_next_pending_job does not claim the job it returns: the call
\* writes no row, the job it returned is still pending and still the one a
\* second caller is given, and a call that follows a call with no write
\* between them returns the same job.
C17_PollDoesNotClaim ==
    [][last'.op = "get_next_pending_job"
       => /\ jobs' = jobs
          /\ snapshots' = snapshots
          /\ last'.ret # NoId
                => /\ get_job(jobs', last'.ret).status = STATUS_PENDING
                   /\ get_next_pending_job(jobs') = {get_job(jobs, last'.ret)}
          /\ last'.ret = NoId => get_next_pending_job(jobs') = {NoneRow}
          /\ last.op = "get_next_pending_job" => last'.ret = last.ret]_vars

\* The older of two pending jobs was returned and both are still pending.
C17_Witness ==
    /\ last.op = "get_next_pending_job"
    /\ Len(jobs) = 2
    /\ last.ret = jobs[1].id
    /\ jobs[1].status = STATUS_PENDING
    /\ jobs[2].status = STATUS_PENDING
    /\ jobs[1].updated > jobs[1].created

\* C18: job_exists(D) is true exactly when a job of D is pending or running
\* and writes nothing; when D has jobs and none of them is pending or
\* running, evaluate_dataset on a valid dataset D succeeds, and
\* get_jobs_for_dataset(D) then returns the earlier jobs and the new
\* pending one.
C18_JobExistsOnlyForActiveJob ==
    [][/\ \A d \in DatasetIds :
            job_exists(d) <=> \E i \in DOMAIN jobs :
                                /\ jobs[i].dataset_id = d
                                /\ jobs[i].status \in {STATUS_PENDING, STATUS_RUNNING}
       /\ last'.op = "job_exists"
            => /\ last'.found <=> \E i \in DOMAIN jobs :
                                    /\ jobs[i].dataset_id = last'.dataset_id
                                    /\ jobs[i].status \in {STATUS_PENDING, STATUS_RUNNING}
               /\ jobs' = jobs
               /\ snapshots' = snapshots
       /\ (/\ last'.op = "evaluate_dataset"
           /\ JobsOfDataset(jobs, last'.dataset_id) # {}
           /\ \A i \in JobsOfDataset(jobs, last'.dataset_id) :
                    jobs[i].status \in {STATUS_DONE, STATUS_FAILED}
           /\ last'.fetched => validate_dataset(last'.doc, lowlevel).exc = None)
            => /\ last'.exc = None
               /\ \A L \in get_jobs_for_dataset(jobs', last'.dataset_id) :
                    {L[k] : k \in DOMAIN L} =
                        {jobs[i] : i \in JobsOfDataset(jobs, last'.dataset_id)}
                            \cup {get_job(jobs', last'.ret)}
               /\ get_job(jobs', last'.ret).status = STATUS_PENDING
               /\ get_job(jobs, last'.ret) = NoneRow]_vars

\* The second job of a dataset, created after the first was set done.
C18_Witness ==
    /\ last.op = "evaluate_dataset"
    /\ last.exc = None
    /\ Len(jobs) = 2
    /\ last.ret = jobs[2].id
    /\ jobs[1].dataset_id = jobs[2].dataset_id
    /\ jobs[1].status = STATUS_DONE
    /\ jobs[2].status = STATUS_PENDING
    /\ get_jobs_for_dataset(jobs, last.dataset_id) = {<<jobs[1], jobs[2]>>}

\* C19: a result is set only after completion: every job with a result is
\* done or failed, and every pending or running job has no result.
C19_ResultOnlyWhenFinished ==
    \A i \in DOMAIN jobs :
        /\ jobs[i].result # None => jobs[i].status \in {STATUS_DONE, STATUS_FAILED}
        /\ jobs[i].status \in ActiveStatuses => jobs[i].result = None

\* C19, amended: a job is created without a result, and a job's result
\* changes only in a set_job_result call on that job, which is accepted
\* whatever the job's status.
C19_ResultOnlyBySetJobResult ==
    [][/\ \A i \in DOMAIN jobs' \ DOMAIN jobs : jobs'[i].result = None
       /\ \A i \in DOMAIN jobs \cap DOMAIN jobs' :
            jobs'[i].result # jobs[i].result
                => /\ last'.op = "set_job_result"
                   /\ last'.job_id = jobs[i].id
                   /\ jobs'[i].result = last'.result
       /\ (last'.op = "set_job_result" /\ Matches(jobs, last'.job_id))
            => /\ last'.exc = None
               /\ get_job(jobs', last'.job_id).result = last'.result]_vars

\* A running job that carries a result.
C19_Witness ==
    /\ last.op = "set_job_result"
    /\ Matches(jobs, last.job_id)
    /\ get_job(jobs, last.job_id).status = STATUS_RUNNING
    /\ get_job(jobs, last.job_id).result = "res"
    /\ get_job(jobs, last.job_id).updated = get_job(jobs, last.job_id).created + 2

\* C20: evaluate_dataset creates no job when normalize is not a bool or
\* filter_type is neither None nor 'artist': the call raises and the number
\* of jobs stays, whatever the dataset and the jobs in the table.
C20_BadOptionsCreateNothing ==
    [][(/\ last'.op = "evaluate_dataset"
        /\ \/ ~isinstance_bool(last'.normalize)
           \/ (last'.filter_type # None /\ last'.filter_type # FILTER_ARTIST))
       => /\ last'.exc # None
          /\ Len(jobs') = Len(jobs)]_vars

\* A non-bool normalize with a valid dataset and no active job: the call
\* gets as far as _create_job and is rejected there.
C20_Witness ==
    /\ last.op = "evaluate_dataset"
    /\ last.normalize = PyInt1
    /\ last.filter_type = FILTER_ARTIST
    /\ last.exc = ValueError
    /\ last.fetched
    /\ Len(jobs) = 1

====
